---- MODULE Spec2Model ----
(***************************************************************************)
(* bbqueue core (src/core/src/lib.rs): the grant / commit / read / release *)
(* state machine of the bipartite SPSC byte queue, with one producer and   *)
(* one consumer.  Every atomic load and store of write, read and last is a *)
(* step of its own; the memory model is sequential consistency.            *)
(*                                                                         *)
(* usize arithmetic is kept at a (scaled-down) word width: `+` and `-`     *)
(* either panic (overflow checks compiled in) or wrap modulo Word.         *)
(* A panic stops the party that panicked; the other one may go on.         *)
(***************************************************************************)
EXTENDS Integers, Sequences, FiniteSets, TLC

\* buf.len(): the capacity of the backing storage
N == 4
\* 2^w, the number of usize values (scaled down; 2 * N < Word as a slice is
\* never longer than isize::MAX)
Word == 16
\* the producer holds at most this many GrantW tokens at once
MaxHeld == 2
\* the producer is followed up to its MaxStale-th commit out of turn (of a
\* token while it holds another, non-empty one): it makes no call after it
MaxStale == 2
\* split is called at most this many times
MaxSplits == 2
\* the committed bytes that are tracked: the oldest MaxPending unreleased ones
MaxPending == 6

VARIABLES
    write,              \* Track.write
    read,               \* Track.read
    last,               \* Track.last
    reserve,            \* Track.reserve
    read_in_progress,   \* Track.read_in_progress
    overflow_checks,    \* build: do `+` and `-` panic on overflow?
    buf,                \* the backing storage: cell -> byte
    wgrants,            \* the GrantW tokens the producer holds
    rgrant,             \* the GrantR token the consumer holds (<<>>: none)
    ppc, pl, pres,      \* producer: position, locals, result of its last call
    cpc, cl, cres,      \* consumer: position, locals, result of its last call
    pending,            \* bytes committed and not yet released, oldest first
    stale,              \* the number of commits made out of turn
    mode,               \* the callers: free, or a producer that retries
                        \* grant(mode.sz) beside a consumer that drains
    is_split,           \* BBQueue.is_split
    handles,            \* the pairs (Producer, Consumer) that split has returned
    spc                 \* the caller of split: position

vars == <<write, read, last, reserve, read_in_progress, overflow_checks, buf,
          wgrants, rgrant, ppc, pl, pres, cpc, cl, cres, pending, stale, mode,
          is_split, handles, spc>>

owner == <<is_split, handles, spc>>

track == <<write, read, last, reserve, read_in_progress>>

Usize == 0 .. Word - 1

Min(a, b) == IF a < b THEN a ELSE b

\* usize `a + b` and `a - b`: the wrapped value, and whether it overflowed
WrapAdd(a, b) == (a + b) % Word
AddOverflows(a, b) == a + b >= Word
WrapSub(a, b) == (a - b + Word) % Word
SubOverflows(a, b) == a < b

NoLocals == [op |-> "none"]
NoResult == [op |-> "none", res |-> "none"]
\* a result of the consumer also tells whether the call found the queue
\* empty (no byte pending) and level (write = read) when it loaded write,
\* and whether it stored to read or last
NoReadResult ==
    [op |-> "none", res |-> "none", empty |-> FALSE, level |-> FALSE, stored |-> FALSE]

Free == [sz |-> 0]

\* BBQueue::new, lines 87-95, with Track::new, lines 57-74
New ==
    /\ write = 0
    /\ read = 0
    /\ last = N
    /\ reserve = 0
    /\ read_in_progress = FALSE
    /\ overflow_checks \in BOOLEAN
    /\ buf = [i \in 0 .. N - 1 |-> 0]
    /\ wgrants = <<>>
    /\ rgrant = <<>>
    /\ ppc = "idle" /\ pl = NoLocals /\ pres = NoResult
    /\ cpc = "idle" /\ cl = NoLocals /\ cres = NoReadResult
    /\ pending = <<>>
    /\ stale = 0
    /\ mode = Free
    /\ is_split = FALSE
    /\ spc = "idle"

\* the queue after new and split: one producer and one consumer handle
Init ==
    /\ New
    /\ handles = 1

(***************************************************************************)
(* Producer: grant, grant_max, commit                                      *)
(***************************************************************************)

\* a GrantW token: the slice buf[start .. start + len), and the bytes the
\* producer wrote into it (base, base + 1, ...: every written byte is unique)
\* (an empty slice holds no byte: its start is not kept)
Token(start, len) ==
    [start |-> IF len = 0 THEN 0 ELSE start, len |-> len, base |-> 0,
     filled |-> len = 0]

\* do the slices buf[s1 .. s1 + l1) and buf[s2 .. s2 + l2) share a byte?
Overlap(s1, l1, s2, l2) == l1 > 0 /\ l2 > 0 /\ s1 < s2 + l2 /\ s2 < s1 + l1

\* a slice that reaches outside the storage, or that shares a byte with a
\* slice the other references of the program still hold (from_raw_parts_mut,
\* lines 149 and 212; from_raw_parts, line 296), is undefined behaviour
WildWrite(start, len) ==
    \/ start + len > N
    \/ \E k \in 1 .. Len(wgrants) : Overlap(start, len, wgrants[k].start, wgrants[k].len)
    \/ rgrant # <<>> /\ Overlap(start, len, rgrant.start, rgrant.len)

WildRead(start, len) ==
    \/ start + len > N
    \/ \E k \in 1 .. Len(wgrants) : Overlap(start, len, wgrants[k].start, wgrants[k].len)

Remove(s, i) == [j \in 1 .. Len(s) - 1 |-> IF j < i THEN s[j] ELSE s[j + 1]]

\* GrantOutcome with the inversion test sz <= read in place of sz < read
GrantOutcome_NonStrict(w, r, sz, rsv) ==
    LET already_inverted == w < r
        failed == [res |-> "InsufficientSize", start |-> 0, len |-> 0, reserve |-> rsv]
        panic(rv) == [res |-> "panic", start |-> 0, len |-> 0, reserve |-> rv]
        ok(start) ==
            IF AddOverflows(start, sz) /\ overflow_checks THEN panic(rsv)
            ELSE IF start >= N THEN panic(WrapAdd(start, sz))
            ELSE [res |-> "Ok", start |-> start, len |-> sz,
                  reserve |-> WrapAdd(start, sz)]
    IN  IF AddOverflows(w, sz) /\ overflow_checks THEN panic(rsv)
        ELSE IF already_inverted
        THEN IF WrapAdd(w, sz) < r THEN ok(w) ELSE failed
        ELSE IF WrapAdd(w, sz) <= N THEN ok(w)
        ELSE IF sz <= r THEN ok(0)
        ELSE failed

\* grant, lines 115-152, from the loaded write w and read r: the result, the
\* slice, and the value stored to reserve (rsv when nothing is stored)
GrantOutcome(w, r, sz, rsv) ==
    LET already_inverted == w < r
        failed == [res |-> "InsufficientSize", start |-> 0, len |-> 0, reserve |-> rsv]
        panic(rv) == [res |-> "panic", start |-> 0, len |-> 0, reserve |-> rv]
        ok(start) ==
            IF AddOverflows(start, sz) /\ overflow_checks THEN panic(rsv)
            ELSE IF start >= N THEN panic(WrapAdd(start, sz))
            ELSE [res |-> "Ok", start |-> start, len |-> sz,
                  reserve |-> WrapAdd(start, sz)]
    IN  IF AddOverflows(w, sz) /\ overflow_checks THEN panic(rsv)
        ELSE IF already_inverted
        THEN IF WrapAdd(w, sz) < r THEN ok(w) ELSE failed
        ELSE IF WrapAdd(w, sz) <= N THEN ok(w)
        ELSE IF sz < r THEN ok(0)
        ELSE failed

\* grant_max, lines 174-215
GrantMaxOutcome(w, r, sz, rsv) ==
    LET already_inverted == w < r
        failed == [res |-> "InsufficientSize", start |-> 0, len |-> 0, reserve |-> rsv]
        panic(rv) == [res |-> "panic", start |-> 0, len |-> 0, reserve |-> rv]
        ok(start, n) ==
            IF AddOverflows(start, n) /\ overflow_checks THEN panic(rsv)
            ELSE IF start >= N THEN panic(WrapAdd(start, n))
            ELSE [res |-> "Ok", start |-> start, len |-> n,
                  reserve |-> WrapAdd(start, n)]
    IN  IF already_inverted
        THEN LET remain == r - w - 1
             IN  IF remain # 0 THEN ok(w, Min(remain, sz)) ELSE failed
        ELSE IF w # N
        THEN IF SubOverflows(N, w) /\ overflow_checks THEN panic(rsv)
             ELSE ok(w, Min(WrapSub(N, w), sz))
        ELSE IF r > 1 THEN ok(0, Min(r - 1, sz))
        ELSE failed

\* lines 104-110 and 163-169: load write; a grant is in progress when
\* reserve differs from it
GrantLoadWrite(op) ==
    /\ ppc = "idle"
    /\ stale < MaxStale
    /\ Len(wgrants) < MaxHeld
    /\ IF reserve # write
       THEN /\ pres' = [op |-> op, res |-> "GrantInProgress"]
            /\ UNCHANGED <<ppc, pl>>
       ELSE /\ ppc' = "grant_read"
            /\ pl' = [op |-> op, w |-> write]
            /\ pres' = NoResult
    /\ UNCHANGED <<track, overflow_checks, owner, mode, buf, wgrants, rgrant, cpc, cl, cres, pending, stale>>

\* GrantLoadRead with reserve stored before the size is tested
GrantLoadRead_Eager(sz) ==
    /\ ppc = "grant_read"
    /\ LET o == IF pl.op = "grant"
                THEN GrantOutcome(pl.w, read, sz, reserve)
                ELSE GrantMaxOutcome(pl.w, read, sz, reserve)
       IN  /\ reserve' = IF o.res = "InsufficientSize" THEN WrapAdd(pl.w, sz)
                         ELSE o.reserve
           /\ ppc' = IF o.res = "panic" THEN "panic"
                     ELSE IF o.res = "Ok" /\ WildWrite(o.start, o.len) THEN "ub"
                     ELSE "idle"
           /\ pres' = [op |-> pl.op, res |-> o.res]
           /\ wgrants' = IF o.res = "Ok"
                         THEN Append(wgrants, Token(o.start, o.len))
                         ELSE wgrants
    /\ pl' = NoLocals
    /\ UNCHANGED <<write, read, last, read_in_progress, overflow_checks, owner, mode, buf,
                   rgrant, cpc, cl, cres, pending, stale>>

\* lines 112-152 and 171-215: load read, place the grant of the requested
\* size sz (which the code first uses here), store reserve
GrantLoadRead(sz) ==
    /\ ppc = "grant_read"
    /\ LET o == IF pl.op = "grant"
                THEN GrantOutcome(pl.w, read, sz, reserve)
                ELSE GrantMaxOutcome(pl.w, read, sz, reserve)
       IN  /\ reserve' = o.reserve
           /\ ppc' = IF o.res = "panic" THEN "panic"
                     ELSE IF o.res = "Ok" /\ WildWrite(o.start, o.len) THEN "ub"
                     ELSE "idle"
           /\ pres' = [op |-> pl.op, res |-> o.res]
           /\ wgrants' = IF o.res = "Ok"
                         THEN Append(wgrants, Token(o.start, o.len))
                         ELSE wgrants
    /\ pl' = NoLocals
    /\ UNCHANGED <<write, read, last, read_in_progress, overflow_checks, owner, mode, buf,
                   rgrant, cpc, cl, cres, pending, stale>>

(***************************************************************************)
(* The bytes.  The producer writes a fresh, unique byte into every cell of *)
(* a grant, so that a byte read back identifies the byte written.  Only    *)
(* equality of bytes matters: bytes are renamed to 1, 2, ... in the order  *)
(* written, and a byte that is neither pending nor in a held grant (it can *)
(* never be read rightfully again) is renamed to 0.                        *)
(***************************************************************************)

TokenBytes(t) == IF t.filled THEN {t.base + k : k \in 0 .. t.len - 1} ELSE {}

LiveBytes(p, g) ==
    {p[k] : k \in 1 .. Len(p)} \cup UNION {TokenBytes(g[k]) : k \in 1 .. Len(g)}

Rank(S, x) == Cardinality({y \in S : y <= x})

RenameBuf(b, S) == [c \in DOMAIN b |-> IF b[c] \in S THEN Rank(S, b[c]) ELSE 0]
RenamePending(p, S) == [k \in 1 .. Len(p) |-> Rank(S, p[k])]
RenameGrants(g, S) ==
    [k \in 1 .. Len(g) |->
        IF g[k].filled /\ g[k].len > 0
        THEN [g[k] EXCEPT !.base = Rank(S, g[k].base)]
        ELSE g[k]]

Truncate(p) == IF Len(p) > MaxPending THEN SubSeq(p, 1, MaxPending) ELSE p

\* the producer writes through grant.buf (GrantW.buf, line 318): every cell
\* of the slice that lies in the storage gets its byte
Fill(i) ==
    /\ ppc = "idle"
    /\ stale < MaxStale
    /\ i \in 1 .. Len(wgrants)
    /\ ~wgrants[i].filled
    /\ LET t == wgrants[i]
           base == Cardinality(LiveBytes(pending, wgrants)) + 1
       IN  /\ buf' = [c \in DOMAIN buf |->
                        IF t.start <= c /\ c < t.start + t.len
                        THEN base + (c - t.start) ELSE buf[c]]
           /\ wgrants' = [wgrants EXCEPT ![i].base = base, ![i].filled = TRUE]
    /\ pres' = NoResult
    /\ UNCHANGED <<track, overflow_checks, owner, mode, rgrant, ppc, pl, cpc, cl, cres, pending, stale>>

\* commit, lines 227-235: the token is consumed, reserve is shrunk, and the
\* inversion test decides whether last is stored
CommitLoadWrite(i, used) ==
    /\ ppc = "idle"
    /\ stale < MaxStale
    /\ i \in 1 .. Len(wgrants)
    /\ wgrants[i].filled
    /\ used <= wgrants[i].len
    /\ stale' = IF \E k \in 1 .. Len(wgrants) : k # i /\ wgrants[k].len > 0
                 THEN stale + 1 ELSE stale
    /\ LET t == wgrants[i]
           w == write
           unused == t.len - used
           panics == SubOverflows(reserve, unused) /\ overflow_checks
           rsv == WrapSub(reserve, unused)
           g == Remove(wgrants, i)
           p == IF panics THEN pending
                ELSE Truncate(pending \o [k \in 1 .. used |-> t.base + k - 1])
           S == LiveBytes(p, g)
       IN  /\ reserve' = IF panics THEN reserve ELSE rsv
           /\ ppc' = IF panics THEN "panic"
                     ELSE IF rsv < w /\ w # N THEN "commit_last"
                     ELSE "commit_write"
           /\ pl' = IF panics THEN NoLocals ELSE [op |-> "commit", w |-> w]
           /\ wgrants' = RenameGrants(g, S)
           /\ pending' = RenamePending(p, S)
           /\ buf' = RenameBuf(buf, S)
    /\ pres' = NoResult
    /\ UNCHANGED <<write, read, last, read_in_progress, overflow_checks, owner, mode,
                   rgrant, cpc, cl, cres>>

\* CommitPanic with the assertion placed after the update of reserve
CommitPanic_Late(i, used) ==
    /\ ppc = "idle"
    /\ stale < MaxStale
    /\ i \in 1 .. Len(wgrants)
    /\ used > wgrants[i].len
    /\ reserve' = WrapAdd(reserve, used - wgrants[i].len)
    /\ ppc' = "panic"
    /\ pres' = [NoResult EXCEPT !.op = "commit", !.res = "panic"]
    /\ LET g == Remove(wgrants, i)
           S == LiveBytes(pending, g)
       IN  /\ wgrants' = RenameGrants(g, S)
           /\ pending' = RenamePending(pending, S)
           /\ buf' = RenameBuf(buf, S)
    /\ UNCHANGED <<write, read, last, read_in_progress, overflow_checks, owner, mode, rgrant,
                   pl, cpc, cl, cres, stale>>

\* commit, line 228: assert!(len >= used)
CommitPanic(i, used) ==
    /\ ppc = "idle"
    /\ stale < MaxStale
    /\ i \in 1 .. Len(wgrants)
    /\ used > wgrants[i].len
    /\ ppc' = "panic"
    /\ pres' = [NoResult EXCEPT !.op = "commit", !.res = "panic"]
    /\ LET g == Remove(wgrants, i)
           S == LiveBytes(pending, g)
       IN  /\ wgrants' = RenameGrants(g, S)
           /\ pending' = RenamePending(pending, S)
           /\ buf' = RenameBuf(buf, S)
    /\ UNCHANGED <<track, overflow_checks, owner, mode, rgrant, pl, cpc, cl, cres, stale>>

\* commit, line 238: MOVING LAST BACKWARDS
CommitStoreLast ==
    /\ ppc = "commit_last"
    /\ last' = pl.w
    /\ ppc' = "commit_write"
    /\ UNCHANGED <<write, read, reserve, read_in_progress, overflow_checks, owner, mode, buf,
                   wgrants, rgrant, pl, pres, cpc, cl, cres, pending, stale>>

\* commit, line 244: MOVING WRITE FORWARDS
CommitStoreWrite ==
    /\ ppc = "commit_write"
    /\ write' = reserve
    /\ ppc' = "idle"
    /\ pl' = NoLocals
    /\ pres' = [NoResult EXCEPT !.op = "commit", !.res = "done"]
    /\ UNCHANGED <<read, last, reserve, read_in_progress, overflow_checks, owner, mode, buf,
                   wgrants, rgrant, cpc, cl, cres, pending, stale>>

(***************************************************************************)
(* Consumer: read, release                                                 *)
(***************************************************************************)

\* read, lines 281-299, from the local write w, last l and read r: the
\* result, the slice, and the value of read_in_progress
ReadOutcome(w, l, r) ==
    LET hi == IF w < r THEN l ELSE w
        sz == WrapSub(hi, r)
    IN  IF SubOverflows(hi, r) /\ overflow_checks
        THEN [res |-> "panic", start |-> 0, len |-> 0, rip |-> FALSE]
        ELSE IF sz = 0
        THEN [res |-> "InsufficientSize", start |-> 0, len |-> 0, rip |-> FALSE]
        ELSE IF r >= N
        THEN [res |-> "panic", start |-> 0, len |-> 0, rip |-> TRUE]
        ELSE [res |-> "Ok", start |-> r, len |-> sz, rip |-> TRUE]

\* the end of a read call: lines 281-299 follow the last load or store
ReadReturn(w, l, r, stored) ==
    LET o == ReadOutcome(w, l, r)
    IN  /\ read_in_progress' = o.rip
        /\ cpc' = IF o.res = "panic" THEN "panic"
                  ELSE IF o.res = "Ok" /\ WildRead(o.start, o.len) THEN "ub"
                  ELSE "idle"
        /\ cl' = NoLocals
        /\ cres' = [op |-> "read", res |-> o.res, empty |-> cl.empty,
                    level |-> cl.level, stored |-> stored]
        /\ rgrant' = IF o.res = "Ok" THEN [start |-> o.start, len |-> o.len]
                     ELSE rgrant

\* ReadLoadWrite without the test of read_in_progress (lines 252-254)
ReadLoadWrite_NoFlag ==
    /\ cpc = "idle"
    /\ cpc' = "read_last"
    /\ cl' = [op |-> "read", w |-> write, l |-> 0, r |-> 0,
              empty |-> pending = <<>>, level |-> write = read]
    /\ cres' = NoReadResult
    /\ UNCHANGED <<track, overflow_checks, owner, mode, buf, wgrants, rgrant, ppc, pl, pres,
                   pending, stale>>

\* read, lines 252-256: refuse while a read grant is out, else load write
ReadLoadWrite ==
    /\ cpc = "idle"
    /\ IF read_in_progress
       THEN /\ cres' = [NoReadResult EXCEPT !.op = "read", !.res = "GrantInProgress"]
            /\ UNCHANGED <<cpc, cl>>
       ELSE /\ cpc' = "read_last"
            /\ cl' = [op |-> "read", w |-> write, l |-> 0, r |-> 0,
                      empty |-> pending = <<>>, level |-> write = read]
            /\ cres' = NoReadResult
    /\ UNCHANGED <<track, overflow_checks, owner, mode, buf, wgrants, rgrant, ppc, pl, pres, pending, stale>>

\* read, line 257: load last
ReadLoadLast ==
    /\ cpc = "read_last"
    /\ cl' = [cl EXCEPT !.l = last]
    /\ cpc' = "read_read"
    /\ UNCHANGED <<track, overflow_checks, owner, mode, buf, wgrants, rgrant, ppc, pl, pres,
                   cres, pending, stale>>

\* MustRewind without the test write < read
MustRewind_AtLast(w, l, r) == r = l

\* the test of line 262: the tail of an inversion is exhausted
MustRewind(w, l, r) == r = l /\ w < r

\* read, lines 258-262: load read, and decide whether to rewind
ReadLoadRead ==
    /\ cpc = "read_read"
    /\ IF MustRewind(cl.w, cl.l, read)
       THEN /\ cpc' = "read_store_read"
            /\ cl' = [cl EXCEPT !.r = 0]
            /\ UNCHANGED <<read_in_progress, rgrant, cres>>
       ELSE ReadReturn(cl.w, cl.l, read, FALSE)
    /\ UNCHANGED <<write, read, last, reserve, overflow_checks, owner, mode, buf, wgrants,
                   ppc, pl, pres, pending, stale>>

\* read, lines 272-273: MOVING READ BACKWARDS
ReadStoreRead ==
    /\ cpc = "read_store_read"
    /\ read' = 0
    /\ IF cl.l # N
       THEN /\ cpc' = "read_store_last"
            /\ UNCHANGED <<read_in_progress, rgrant, cl, cres>>
       ELSE ReadReturn(cl.w, cl.l, 0, TRUE)
    /\ UNCHANGED <<write, last, reserve, overflow_checks, owner, mode, buf, wgrants,
                   ppc, pl, pres, pending, stale>>

\* read, lines 276-277: MOVING LAST FORWARDS
ReadStoreLast ==
    /\ cpc = "read_store_last"
    /\ last' = N
    /\ ReadReturn(cl.w, N, 0, TRUE)
    /\ UNCHANGED <<write, read, reserve, overflow_checks, owner, mode, buf, wgrants,
                   ppc, pl, pres, pending, stale>>

\* release, lines 306-312
Release(used) ==
    /\ cpc = "idle"
    /\ rgrant # <<>>
    /\ used <= rgrant.len
    /\ read' = WrapAdd(read, used)
    /\ read_in_progress' = FALSE
    /\ rgrant' = <<>>
    /\ cres' = [NoReadResult EXCEPT !.op = "release", !.res = "done"]
    /\ LET p == SubSeq(pending, used + 1, Len(pending))
           S == LiveBytes(p, wgrants)
       IN  /\ pending' = RenamePending(p, S)
           /\ wgrants' = RenameGrants(wgrants, S)
           /\ buf' = RenameBuf(buf, S)
    /\ UNCHANGED <<write, last, reserve, overflow_checks, owner, mode, ppc, pl, pres, cpc, cl, stale>>

\* release, line 306: assert!(used <= grant.buf.len())
ReleasePanic(used) ==
    /\ cpc = "idle"
    /\ rgrant # <<>>
    /\ used > rgrant.len
    /\ cpc' = "panic"
    /\ rgrant' = <<>>
    /\ cres' = [NoReadResult EXCEPT !.op = "release", !.res = "panic"]
    /\ UNCHANGED <<track, overflow_checks, owner, mode, buf, wgrants, ppc, pl, pres, cl, pending, stale>>

\* the counts passed to commit and release: every count up to the capacity,
\* and one above any slice inside the storage
Used == 0 .. N + 1

Next ==
    \/ GrantLoadWrite("grant")
    \/ GrantLoadWrite("grant_max")
    \/ \E sz \in Usize : GrantLoadRead(sz)
    \/ \E i \in 1 .. MaxHeld : Fill(i)
    \/ \E i \in 1 .. MaxHeld, used \in Used : CommitLoadWrite(i, used)
    \/ \E i \in 1 .. MaxHeld, used \in Used : CommitPanic(i, used)
    \/ CommitStoreLast
    \/ CommitStoreWrite
    \/ ReadLoadWrite
    \/ ReadLoadLast
    \/ ReadLoadRead
    \/ ReadStoreRead
    \/ ReadStoreLast
    \/ \E used \in Used : Release(used)
    \/ \E used \in Used : ReleasePanic(used)

Spec == Init /\ [][Next]_vars

(***************************************************************************)
(* A producer that keeps asking for one size beside a consumer that drains *)
(***************************************************************************)

\* the sizes a caller that respects the capacity asks for
Sizes == 1 .. N

\* the calls of the producer up to the moment it starts to retry
FreeProducer ==
    /\ mode = Free
    /\ \/ GrantLoadWrite("grant")
       \/ GrantLoadWrite("grant_max")
       \/ \E sz \in Sizes : GrantLoadRead(sz)
       \/ \E i \in 1 .. MaxHeld : Fill(i)
       \/ \E i \in 1 .. MaxHeld, used \in Sizes \cup {0} : CommitLoadWrite(i, used)
       \/ CommitStoreLast
       \/ CommitStoreWrite

\* the producer, holding no grant, starts to retry grant(k)
RetryStart(k) ==
    /\ mode = Free
    /\ ppc = "idle"
    /\ wgrants = <<>>
    /\ mode' = [sz |-> k]
    /\ pres' = NoResult
    /\ UNCHANGED <<track, overflow_checks, owner, buf, wgrants, rgrant, ppc, pl, cpc, cl, cres,
                   pending, stale>>

\* grant(mode.sz), called again for as long as it has not succeeded
RetryGrant ==
    /\ mode # Free
    /\ pres.res # "Ok"
    /\ \/ GrantLoadWrite("grant")
       \/ GrantLoadRead(mode.sz)

\* the calls of a consumer that releases all it was granted
Drain ==
    \/ ReadLoadWrite
    \/ ReadLoadLast
    \/ ReadLoadRead
    \/ ReadStoreRead
    \/ ReadStoreLast
    \/ rgrant # <<>> /\ Release(rgrant.len)

\* a release of a part of the read grant, before the producer retries
PartRelease ==
    /\ mode = Free
    /\ \E used \in 0 .. N : rgrant # <<>> /\ used < rgrant.len /\ Release(used)

LiveNext ==
    \/ FreeProducer
    \/ \E k \in 1 .. N - 1 : RetryStart(k)
    \/ RetryGrant
    \/ Drain
    \/ PartRelease

\* both threads are scheduled again and again
LiveSpec ==
    /\ Init
    /\ [][LiveNext]_vars
    /\ WF_vars(RetryGrant)
    /\ WF_vars(Drain)

(***************************************************************************)
(* split, called on a new queue, and called again                          *)
(***************************************************************************)

\* split, lines 351-371: assert!(!self.is_split), then the two handles are
\* made from pointers to the queue; is_split is not written
Split ==
    /\ spc = "idle"
    /\ handles < MaxSplits
    /\ IF is_split
       THEN spc' = "panic" /\ UNCHANGED handles
       ELSE handles' = handles + 1 /\ UNCHANGED spc
    /\ UNCHANGED <<track, overflow_checks, is_split, mode, buf, wgrants, rgrant,
                   ppc, pl, pres, cpc, cl, cres, pending, stale>>

\* the queue after new
SplitInit ==
    /\ New
    /\ handles = 0

\* the handles are used once split has returned them
SplitNext ==
    \/ Split
    \/ handles >= 1 /\ FreeProducer
    \/ handles >= 1 /\ Drain
    \/ handles >= 1 /\ PartRelease

SplitSpec == SplitInit /\ [][SplitNext]_vars

(***************************************************************************)
(* Claims                                                                  *)
(***************************************************************************)

\* the byte in cell c; a cell outside the storage holds no byte of the queue
Cell(c) == IF c \in DOMAIN buf THEN buf[c] ELSE -1

PendingBytes == {pending[k] : k \in 1 .. Len(pending)}

\* C1: the bytes a read grant exposes are the oldest committed and not yet
\* released bytes, in the order of their commit (so the bytes released are
\* always a prefix of the bytes committed, and none is seen before its commit)
C1_RoundTrip ==
    rgrant # <<>> =>
        /\ rgrant.len <= Len(pending)
        /\ \A k \in 0 .. rgrant.len - 1 : Cell(rgrant.start + k) = pending[k + 1]

\* C2: a held write grant shares no byte with the held read grant, and no
\* committed and unreleased byte lies in, or was overwritten through, a
\* write grant
C2_Disjoint ==
    /\ \A k \in 1 .. Len(wgrants) :
          /\ rgrant # <<>> =>
                ~Overlap(wgrants[k].start, wgrants[k].len, rgrant.start, rgrant.len)
          /\ ~wgrants[k].filled =>
                \A c \in wgrants[k].start .. wgrants[k].start + wgrants[k].len - 1 :
                    Cell(c) \notin PendingBytes
    /\ \A b \in PendingBytes : \E c \in DOMAIN buf : buf[c] = b

Grants == {"grant", "grant_max"}

\* C3: a grant or grant_max call made while a write grant is held returns
\* GrantInProgress, so at most one write grant is held at any moment
C3_WriteExclusive ==
    /\ pres.op \in Grants /\ pres.res = "Ok" => Len(wgrants) = 1
    /\ pres.op \in Grants /\ pres.res \in {"InsufficientSize", "panic"} => wgrants = <<>>

C5_GrantLengths ==
    /\ ppc = "grant_read" =>
          \A sz \in Usize :
              LET g == GrantOutcome(pl.w, read, sz, reserve)
                  m == GrantMaxOutcome(pl.w, read, sz, reserve)
              IN  /\ g.res = "Ok" => g.len = sz /\ g.start + g.len <= N
                  /\ m.res = "Ok" => 1 <= m.len /\ m.len <= sz /\ m.start + m.len <= N
    /\ rgrant # <<>> => rgrant.len >= 1 /\ rgrant.start + rgrant.len <= N

\* C6: with no write grant outstanding (the call is past the test of
\* reserve), grant(0) returns InsufficientSize
C6_ZeroRejected ==
    ppc = "grant_read" =>
        GrantOutcome(pl.w, read, 0, reserve).res = "InsufficientSize"

\* C8 (as claimed), its frame part: a read call that found no byte pending
\* and returned InsufficientSize stored neither read nor last
C8_EmptyDrainStoresNothing ==
    cres.op = "read" /\ cres.empty /\ cres.res = "InsufficientSize" => ~cres.stored

\* C8 (amended): a read call that finds write = read (the queue is empty and
\* not inverted) with no read grant held returns InsufficientSize and stores
\* nothing: none of write, read, last, reserve, read_in_progress changes;
\* a read call that finds the queue empty and inverted (write = 0, read =
\* last) returns InsufficientSize too, having set read to 0, and last to N
\* if it loaded another value of last, and nothing else
C8_LevelDrainIdempotent ==
    /\ [](cres.op = "read" /\ cres.level /\ cres.res # "GrantInProgress"
            => cres.res = "InsufficientSize" /\ ~cres.stored /\ cpc = "idle")
    /\ [][cl.op = "read" /\ cl.level /\ cpc' # cpc => track' = track]_vars
    /\ [][cl.op = "read" /\ cl.w = 0 /\ cl' = NoLocals
          /\ cpc \in {"read_store_read", "read_store_last"}
            => /\ cres'.res = "InsufficientSize" /\ cpc' = "idle"
               /\ read' = 0 /\ last' = IF cl.l # N THEN N ELSE last
               /\ <<write, reserve, read_in_progress>>' = <<write, reserve, read_in_progress>>]_vars

\* an empty drain: the queue was filled and drained before (read > 0), and
\* the read call found write = read and was refused
C8_Witness ==
    /\ cres.op = "read" /\ cres.level /\ cres.res = "InsufficientSize"
    /\ read > 0 /\ write = read /\ ~read_in_progress

\* C10: while write = N and read = 0, every grant(sz) and grant_max(sz) with
\* sz >= 1 returns InsufficientSize
C10_FullLinear ==
    ppc = "grant_read" /\ pl.w = N /\ read = 0 =>
        \A sz \in 1 .. Word - 1 :
            /\ GrantOutcome(pl.w, read, sz, reserve).res = "InsufficientSize"
            /\ GrantMaxOutcome(pl.w, read, sz, reserve).res = "InsufficientSize"

\* a read call returns: the step of read that ends the call
ReadReturns == cl.op = "read" /\ cl' = NoLocals

\* C9: once an inversion is committed (read finds write < read), a read call
\* made while the tail is not exhausted is granted exactly the tail
\* [read, last), with last inside the storage; a read call made when the tail
\* is exhausted rewinds read to 0, restores last to N and is granted
\* [0, write); and when that grant is released in full with nothing committed
\* since, the queue is linear and empty: write = read and last = N
C9_WrapOrder ==
    /\ [][ReadReturns /\ cl.w < read /\ read # cl.l
            => /\ cl.l = last /\ read < last /\ last <= N
               /\ cres'.res = "Ok"
               /\ rgrant' = [start |-> read, len |-> last - read]
               /\ track' = [track EXCEPT ![5] = TRUE]]_vars
    /\ [][ReadReturns /\ cpc \in {"read_store_read", "read_store_last"}
            => /\ read' = 0 /\ last' = N
               /\ IF cl.w = 0 THEN cres'.res = "InsufficientSize"
                  ELSE cres'.res = "Ok" /\ rgrant' = [start |-> 0, len |-> cl.w]]_vars
    /\ [][(/\ cres.op = "read" /\ cres.stored /\ cres.res = "Ok"
           /\ cres'.op = "release" /\ cres'.res = "done"
           /\ read' = rgrant.len /\ write = rgrant.len)
            => write' = read' /\ last' = N]_vars

\* C7: a producer that holds no grant and keeps retrying grant(sz) for one sz
\* with 1 <= sz <= N - 1, beside a consumer that keeps calling read and
\* releasing all it was granted, is eventually granted the sz bytes
C7_Recoverable ==
    mode # Free ~> (pres.op = "grant" /\ pres.res = "Ok")

\* C11: a grant(N) call that loads read > 0 fails: it returns
\* InsufficientSize, hands out no token and leaves reserve as it was (or
\* GrantInProgress, when reserve differs from write); and grant(N - 1)
\* can succeed at offset 0 by inversion in a state with read > 0 (the witness)
C11_FullSizeFails ==
    /\ [][ppc = "grant_read" /\ pl.op = "grant" /\ read > 0 /\ GrantLoadRead(N)
            => /\ pres' = [op |-> "grant", res |-> "InsufficientSize"]
               /\ wgrants' = wgrants /\ track' = track]_vars
    /\ [][GrantLoadWrite("grant") /\ reserve # write
            => /\ pres' = [op |-> "grant", res |-> "GrantInProgress"]
               /\ wgrants' = wgrants /\ track' = track]_vars

\* grant(N - 1) has succeeded at offset 0 by inversion while read > 0
C11_Witness ==
    /\ pres = [op |-> "grant", res |-> "Ok"]
    /\ read > 0 /\ write = N /\ reserve = N - 1
    /\ wgrants = <<Token(0, N - 1)>>

\* C12: a commit(used, g) call with used > len(g) and a release(used, g)
\* call with used > len(g) end in a panic, in one step in which none of
\* write, read, last, reserve, read_in_progress changes; and the party that
\* panicked takes no further step
C12_OverAborts ==
    /\ [][ppc = "idle" /\ Len(wgrants') < Len(wgrants) =>
            \/ /\ ppc' = "panic" /\ pres' = [op |-> "commit", res |-> "panic"]
               /\ track' = track
            \/ ~\E i \in 1 .. Len(wgrants), used \in Used :
                    /\ used > wgrants[i].len
                    /\ CommitLoadWrite(i, used) \/ CommitPanic(i, used)]_vars
    /\ [][cpc = "idle" /\ rgrant # <<>> /\ rgrant' = <<>> =>
            \/ /\ cpc' = "panic" /\ cres'.op = "release" /\ cres'.res = "panic"
               /\ track' = track
            \/ ~\E used \in Used :
                    /\ used > rgrant.len
                    /\ Release(used) \/ ReleasePanic(used)]_vars
    /\ [][ppc = "panic" => UNCHANGED <<ppc, pl, pres, write, reserve>>]_vars
    /\ [][cpc = "panic" => UNCHANGED <<cpc, cl, cres, rgrant, read, read_in_progress>>]_vars

\* an over-commit and an over-release have both ended in a panic
C12_Witness ==
    /\ ppc = "panic" /\ pres = [op |-> "commit", res |-> "panic"]
    /\ cpc = "panic" /\ cres.op = "release" /\ cres.res = "panic"

\* C13: split is one-shot: the first call yields a producer and a consumer
\* handle, and a second call aborts instead of yielding a second pair, so
\* that at most one pair of handles ever exists
C13_SplitOnce ==
    /\ [](handles <= 1)
    /\ [][Split /\ handles >= 1 => spc' = "panic" /\ handles' = handles]_vars

\* C14: a grant or grant_max call that returns InsufficientSize or
\* GrantInProgress changes none of write, read, last, reserve (nor
\* read_in_progress, nor the tokens held) in any of its steps
C14_NoPartialFailure ==
    /\ [][ppc = "idle" /\ ppc' = "grant_read" => track' = track]_vars
    /\ [][ppc = "grant_read" /\ ppc' = "idle" /\ pres'.res = "InsufficientSize"
            => track' = track /\ wgrants' = wgrants]_vars
    /\ [][ppc = "idle" /\ pres' # pres /\ pres'.res = "GrantInProgress"
            => ppc' = "idle" /\ track' = track /\ wgrants' = wgrants]_vars

\* a grant call was refused for want of room on a queue that holds bytes
C14_Witness ==
    /\ ppc = "idle" /\ pres.op \in Grants /\ pres.res = "InsufficientSize"
    /\ reserve = write /\ write > 0 /\ pending # <<>>

\* C15: in every reachable state 0 <= read <= last <= N and 0 <= write <= N,
\* and read <= last whenever write < read
C15_CursorBounds ==
    /\ 0 <= read /\ read <= last /\ last <= N
    /\ 0 <= write /\ write <= N
    /\ write < read => read <= last

\* C16: the number of bytes committed and not yet released is write - read
\* when write >= read and (last - read) + write when write < read, so that
\* write = read only when no byte is pending; the bytes of a commit count
\* from its store to write, and a step of the consumer changes both numbers
\* alike even while a commit is between its two stores
C16_Occupancy ==
    /\ [](ppc \notin {"commit_last", "commit_write"}
            => Len(pending) = IF write >= read THEN write - read
                              ELSE (last - read) + write)
    /\ [][cpc' # cpc \/ cres' # cres
            => LET Occ(w, r, l) == IF w >= r THEN w - r ELSE (l - r) + w
               IN  Len(pending') - Len(pending)
                     = Occ(write', read', last') - Occ(write, read, last)]_vars

\* C17: after every completed operation, that is whenever neither party is
\* inside a call, write >= read implies last = N
C17_EndMarker == ppc = "idle" /\ cpc = "idle" /\ write >= read => last = N

C19_LastWriters ==
    /\ [][ppc = "commit_last" /\ ppc' # ppc
            => /\ last = N
               /\ cpc # "read_store_last"
               /\ last' = pl.w /\ pl.w = write
               /\ ppc' = "commit_write" /\ write' = write]_vars
    /\ [][cpc = "read_store_last" /\ cpc' # cpc => last' = N]_vars
    /\ [][ppc = "idle" /\ ppc' = "commit_write" /\ reserve' < write /\ write = N
            => last = N /\ last' = N]_vars

\* C20: a grant(sz) call, whatever its size, either fails, storing nothing
\* (an abort on overflow is taken as a failure), or returns a slice
\* buf[start .. start + sz) inside the storage with reserve = start + sz <= N
C20_OversizedSafe ==
    /\ pres.op = "grant" /\ pres.res = "panic" => reserve = write
    /\ pres.op = "grant" /\ pres.res = "Ok"
        => /\ ppc = "idle"
           /\ reserve <= N
           /\ LET t == wgrants[Len(wgrants)]
              IN  /\ t.start + t.len <= N
                  /\ t.len >= 1 => reserve = t.start + t.len

====
